---- MODULE Spec2Model ----
(***************************************************************************)
(* Model of qton's Circuit class (src/qton/circuit.py): a dense state      *)
(* vector of 2^n complex amplitudes, mutated by swap, _single_gate and     *)
(* _double_gate and sampled by measure.                                    *)
(*                                                                         *)
(* Amplitudes are complex numbers with integer real and imaginary parts,   *)
(* written <<re, im>>; the gates applied are y_gate and cy_gate of         *)
(* gate.py, whose entries are such numbers, so every product and sum is    *)
(* exact.  A method call is two steps: Invoke records the call and its     *)
(* arguments, and the action named after the method runs its whole body.   *)
(* Python positions are 0-based, TLA+ sequences 1-based: state[i] of the   *)
(* code is state[i + 1] here.                                              *)
(***************************************************************************)
EXTENDS Integers, Sequences, FiniteSets, TLC

\* number_of_qubits, state: the two attributes of a Circuit object.
\* call: the method call that is running or has last returned.
\* outcome: "running" while it runs, then how it ended and what it returned.
\* calls: the number of swap, gate and measure calls made so far.
VARIABLES number_of_qubits, state, call, outcome, calls

vars == <<number_of_qubits, state, call, outcome, calls>>

\* ------------------------------------------------------------------ bounds
MaxQubits == 4
MaxCalls == 1
MaxTargets == 2

\* ------------------------------------------------------- complex arithmetic
Zero == <<0, 0>>
One == <<1, 0>>
ImagUnit == <<0, 1>>

CAdd(a, b) == <<a[1] + b[1], a[2] + b[2]>>
CMul(a, b) == <<a[1] * b[1] - a[2] * b[2], a[1] * b[2] + a[2] * b[1]>>
CNeg(a) == <<0 - a[1], 0 - a[2]>>

\* abs(z)**2 of measure()
AbsSq(a) == a[1] * a[1] + a[2] * a[2]

\* 2**k
Pow2(k) == 2^k

\* ------------------------------------------------------------------- gates
\* y_gate and cy_gate of gate.py
y_gate == << <<Zero, CNeg(ImagUnit)>>, <<ImagUnit, Zero>> >>

cy_gate ==
    << <<One, Zero, Zero, Zero>>,
       <<Zero, One, Zero, Zero>>,
       <<Zero, Zero, Zero, CNeg(ImagUnit)>>,
       <<Zero, Zero, ImagUnit, Zero>> >>

\* the gates handed to _single_gate (by Circuit.y) and _double_gate (by Circuit.cy)
SingleGateNames == {"y_gate"}
DoubleGateNames == {"cy_gate"}

GateMatrix(name) == IF name = "y_gate" THEN y_gate ELSE cy_gate

\* numpy.matmul(op, v) for a square op and a vector v of the same dimension
RECURSIVE DotRow(_, _, _)
DotRow(row, v, c) ==
    IF c = 0 THEN Zero ELSE CAdd(DotRow(row, v, c - 1), CMul(row[c], v[c]))

matmul(op, v) == [r \in 1..Len(op) |-> DotRow(op[r], v, Len(v))]

\* ----------------------------------------------------- results of a routine
\* A routine either returns normally or raises; st is the amplitude vector
\* it leaves behind in either case.
Returned(st) == [st |-> st, err |-> FALSE]
Raised(st) == [st |-> st, err |-> TRUE]

\* ------------------------------------------------------------------- swap
\* format(i, '0%db' % n): the n-character binary string of i, leftmost first
BitString(i, n) == [k \in 1..n |-> (i \div Pow2(n - k)) % 2]

\* int(''.join(bit_list), 2)
RECURSIVE IntOfBits(_, _)
IntOfBits(bits, k) ==
    IF k = 0 THEN 0 ELSE 2 * IntOfBits(bits, k - 1) + bits[k]

\* Python sequence indexing s[q] on a sequence of length len: positions
\* -len .. len-1 are accepted, a negative one counts from the end.
PyInRange(q, len) == q >= 0 - len /\ q < len
PyPos(q, len) == IF q >= 0 THEN q + 1 ELSE q + len + 1

\* bit_list when only bit_list[q1] = bit_list[q2] is done
SwapBitsOneWay(bits, q1, q2) ==
    [bits EXCEPT ![PyPos(q1, Len(bits))] = bits[PyPos(q2, Len(bits))]]

\* bit_list after the three assignments through tmp
SwapBits(bits, q1, q2) ==
    LET p1 == PyPos(q1, Len(bits))
        p2 == PyPos(q2, Len(bits))
        tmp == bits[p1]
        b1 == [bits EXCEPT ![p1] = bits[p2]]
    IN  [b1 EXCEPT ![p2] = tmp]

\* reading the array being written instead of the copy
SwapSourceLive(st, old_state) == st

\* which vector the assignment self.state[i] = old_state[j] reads from
SwapSource(st, old_state) == old_state

\* the loop "for i in range(2**n)" of swap, from iteration i on
RECURSIVE SwapLoop(_, _, _, _, _, _)
SwapLoop(i, st, old_state, q1, q2, n) ==
    IF i >= Pow2(n) THEN Returned(st)
    ELSE LET bit_string == BitString(i, n)
         IN  IF ~PyInRange(q1, n) \/ ~PyInRange(q2, n)
             THEN Raised(st)
             ELSE IF bit_string[PyPos(q1, n)] # bit_string[PyPos(q2, n)]
             THEN LET j == IntOfBits(SwapBits(bit_string, q1, q2), n)
                      src == SwapSource(st, old_state)
                  IN  IF j >= Len(src) \/ i >= Len(st)
                      THEN Raised(st)
                      ELSE SwapLoop(i + 1, [st EXCEPT ![i + 1] = src[j + 1]],
                                    old_state, q1, q2, n)
             ELSE SwapLoop(i + 1, st, old_state, q1, q2, n)

swap(st, q1, q2, n) ==
    IF q1 = q2 THEN Returned(st)
    ELSE SwapLoop(0, st, st, q1, q2, n)

\* ------------------------------------------------- the multiplication loops
\* self.state[idx:idx+w]: a slice is cut short at the end of the array
Slice(st, idx, w) ==
    SubSeq(st, idx + 1, IF idx + w <= Len(st) THEN idx + w ELSE Len(st))

\* the first entry of new written to every position of the slice
AssignSliceFirst(st, idx, w, new) ==
    SubSeq(st, 1, idx) \o [k \in 1..w |-> new[1]] \o SubSeq(st, idx + w + 1, Len(st))

\* self.state[idx:idx+w] = new
AssignSlice(st, idx, w, new) ==
    SubSeq(st, 1, idx) \o new \o SubSeq(st, idx + w + 1, Len(st))

\* "for idx in range(0, 2**n, w): state[idx:idx+w] = matmul(op, state[idx:idx+w])"
\* from iteration idx on; matmul raises when the slice is shorter than op
RECURSIVE MulLoop(_, _, _, _, _)
MulLoop(idx, st, op, w, n) ==
    IF idx >= Pow2(n) THEN Returned(st)
    ELSE LET piece == Slice(st, idx, w)
         IN  IF Len(piece) # Len(op)
             THEN Raised(st)
             ELSE MulLoop(idx + w, AssignSlice(st, idx, w, matmul(op, piece)),
                          op, w, n)

\* ------------------------------------------------ sequences of engine steps
SwapStep(a, b) == [kind |-> "swap", a |-> a, b |-> b]
MulStep(w) == [kind |-> "mul", a |-> w, b |-> 0]

\* the statements of a gate routine in program order; an exception ends it
RECURSIVE Run(_, _, _, _, _)
Run(steps, k, op, st, n) ==
    IF k > Len(steps) THEN Returned(st)
    ELSE LET r == IF steps[k].kind = "swap"
                  THEN swap(st, steps[k].a, steps[k].b, n)
                  ELSE MulLoop(0, st, op, steps[k].a, n)
         IN  IF r.err THEN r ELSE Run(steps, k + 1, op, r.st, n)

\* ------------------------------------------------------------ _single_gate
\* the body without the second swap
SingleStepsNoRestore(i, n) == <<SwapStep(i, n - 1), MulStep(2)>>

\* the body of "for i in targ" for one i
SingleSteps(i, n) == <<SwapStep(i, n - 1), MulStep(2), SwapStep(i, n - 1)>>

RECURSIVE SingleLoop(_, _, _, _, _)
SingleLoop(op, targ, k, st, n) ==
    IF k > Len(targ) THEN Returned(st)
    ELSE LET r == Run(SingleSteps(targ[k], n), 1, op, st, n)
         IN  IF r.err THEN r ELSE SingleLoop(op, targ, k + 1, r.st, n)

Range(s) == {s[k] : k \in 1..Len(s)}

\* the lists list(set(targ)) may be: the distinct entries, in any order
Orders(S) ==
    {s \in [1..Cardinality(S) -> S] : \A a, b \in 1..Cardinality(S) : a # b => s[a] # s[b]}

\* list(targ) in place of list(set(targ))
TargetListsKeepRepeats(scalar, targ) == {targ}

\* the list the loop runs over: [targ] for an int, list(set(targ)) otherwise
TargetLists(scalar, targ) == IF scalar THEN {targ} ELSE Orders(Range(targ))

_single_gate(op, list, st, n) == SingleLoop(op, list, 1, st, n)

\* ------------------------------------------------------------ _double_gate
\* the conditional swaps left out
OptNever(cond, step) == <<>>

\* "if cond: self.swap(...)": the step is there when cond holds
Opt(cond, step) == IF cond THEN <<step>> ELSE <<>>

DoubleSteps(ctrl, targ, n) ==
    LET reg == {n - 2, n - 1}
    IN  IF ctrl \notin reg /\ targ \notin reg
        THEN <<SwapStep(ctrl, n - 2), SwapStep(targ, n - 1), MulStep(4),
               SwapStep(targ, n - 1), SwapStep(ctrl, n - 2)>>
        ELSE IF ctrl \in reg /\ targ \in reg
        THEN Opt(ctrl = n - 1, SwapStep(ctrl, targ)) \o <<MulStep(4)>>
             \o Opt(ctrl = n - 1, SwapStep(ctrl, targ))
        ELSE IF ctrl \in reg /\ targ \notin reg
        THEN Opt(ctrl = n - 1, SwapStep(ctrl, n - 2))
             \o <<SwapStep(targ, n - 1), MulStep(4), SwapStep(targ, n - 1)>>
             \o Opt(ctrl = n - 1, SwapStep(ctrl, n - 2))
        ELSE Opt(targ = n - 2, SwapStep(targ, n - 1))
             \o <<SwapStep(ctrl, n - 2), MulStep(4), SwapStep(ctrl, n - 2)>>
             \o Opt(targ = n - 2, SwapStep(targ, n - 1))

\* _double_gate without its first two lines
DoubleGateUnchecked(op, ctrl, targ, st, n) ==
    Run(DoubleSteps(ctrl, targ, n), 1, op, st, n)

_double_gate(op, ctrl, targ, st, n) ==
    IF ctrl = targ
    THEN Raised(st)
    ELSE Run(DoubleSteps(ctrl, targ, n), 1, op, st, n)

\* ----------------------------------------------------------------- measure
\* sum of prob[0 .. k-1], prob[i] = abs(self.state[i])**2
RECURSIVE ProbSum(_, _)
ProbSum(st, k) == IF k = 0 THEN 0 ELSE ProbSum(st, k - 1) + AbsSq(st[k])

\* a sampler that ignores the weights
ChoiceSupportAll(st, n) == 0..(Pow2(n) - 1)

\* the values numpy.random.choice(arange(2**n), p = prob) can return
ChoiceSupport(st, n) == {i \in 0..(Pow2(n) - 1) : AbsSq(st[i + 1]) > 0}

\* measure raises when state[i] is out of bounds or prob does not sum to 1
MeasureRaises(st, n) ==
    \/ Len(st) < Pow2(n)
    \/ ProbSum(st, Pow2(n)) # 1

\* ----------------------------------------------------------------- inputs
\* qubit arguments a caller may pass: the valid ones, -1 and n
QubitArgs(n) == (0 - 1)..n

ValidQubit(q, n) == q >= 0 /\ q < n

\* vectors a caller may hand to initialize: all entries distinct; the
\* normalized |1...1> with phase i; one entry short of 2**n
ComplexRamp(len) == [k \in 1..len |-> <<k, len - k>>]
PhasedBasis(len, k) == [i \in 1..len |-> IF i = k THEN ImagUnit ELSE Zero]
ShortRamp(len) == [k \in 1..(len - 1) |-> <<k, 0>>]

Vectors(n) ==
    {ComplexRamp(Pow2(n)), PhasedBasis(Pow2(n), Pow2(n)), ShortRamp(Pow2(n))}

NoValue == 0 - 1

\* a call on the Circuit object: the method and its arguments
NoCall ==
    [op |-> "construct", gate |-> "", q1 |-> 0, q2 |-> 0, targ |-> <<>>,
     scalar |-> FALSE, vector |-> <<>>]

\* the entries of a sequence argument: the first two qubits, -1 and n
SeqArgs(n) == {0 - 1, 0, 1, n}

\* non-decreasing sequences of at most MaxTargets such entries; the order
\* of targ is lost in set(targ), so one ordering of each multiset is enough
TargetSeqs(n) ==
    {t \in UNION {[1..len -> SeqArgs(n)] : len \in 1..MaxTargets} :
        \A k \in 1..(Len(t) - 1) : t[k] <= t[k + 1]}

InitializeCalls(n) ==
    {[NoCall EXCEPT !.op = "initialize", !.vector = v] : v \in Vectors(n)}
SwapCalls(n) ==
    {[NoCall EXCEPT !.op = "swap", !.q1 = q1, !.q2 = q2] :
        q1 \in QubitArgs(n), q2 \in QubitArgs(n)}
\* targ is an int (scalar) or a sequence of ints
SingleCalls(n) ==
    {[NoCall EXCEPT !.op = "single", !.gate = g, !.targ = <<q>>, !.scalar = TRUE] :
        g \in SingleGateNames, q \in QubitArgs(n)}
    \cup
    {[NoCall EXCEPT !.op = "single", !.gate = g, !.targ = t] :
        g \in SingleGateNames, t \in TargetSeqs(n)}
DoubleCalls(n) ==
    {[NoCall EXCEPT !.op = "double", !.gate = g, !.q1 = ctrl, !.q2 = targ] :
        g \in DoubleGateNames, ctrl \in QubitArgs(n), targ \in QubitArgs(n)}
MeasureCalls == {[NoCall EXCEPT !.op = "measure"]}

GateCalls(n) == SwapCalls(n) \cup SingleCalls(n) \cup DoubleCalls(n) \cup MeasureCalls

\* ------------------------------------------------------------------ actions
\* Circuit.__init__
Init ==
    /\ number_of_qubits \in 1..MaxQubits
    /\ state = [i \in 1..Pow2(number_of_qubits) |-> IF i = 1 THEN One ELSE Zero]
    /\ call = NoCall
    /\ outcome = [status |-> "ok", value |-> NoValue]
    /\ calls = 0

Running == outcome.status = "running"

\* the caller invokes a method; the Circuit is single-threaded, so only
\* when no call is running.  initialize calls are not counted.
Invoke ==
    /\ ~Running
    /\ \/ /\ call' \in InitializeCalls(number_of_qubits)
          /\ calls' = calls
       \/ /\ calls < MaxCalls
          /\ call' \in GateCalls(number_of_qubits)
          /\ calls' = calls + 1
    /\ outcome' = [status |-> "running", value |-> NoValue]
    /\ UNCHANGED <<number_of_qubits, state>>

\* the running call returns or raises, leaving r.st in self.state
Return(r, value) ==
    /\ state' = r.st
    /\ outcome' = [status |-> IF r.err THEN "error" ELSE "ok", value |-> value]
    /\ UNCHANGED <<number_of_qubits, call, calls>>

\* Circuit.initialize: self.state = array(vector, complex)
Initialize ==
    /\ Running /\ call.op = "initialize"
    /\ Return(Returned(call.vector), NoValue)

Swap ==
    /\ Running /\ call.op = "swap"
    /\ Return(swap(state, call.q1, call.q2, number_of_qubits), NoValue)

ApplySingle ==
    /\ Running /\ call.op = "single"
    /\ \E list \in TargetLists(call.scalar, call.targ) :
          Return(_single_gate(GateMatrix(call.gate), list, state, number_of_qubits),
                 NoValue)

ApplyDouble ==
    /\ Running /\ call.op = "double"
    /\ Return(_double_gate(GateMatrix(call.gate), call.q1, call.q2, state,
                           number_of_qubits),
              NoValue)

Measure ==
    /\ Running /\ call.op = "measure"
    /\ IF MeasureRaises(state, number_of_qubits)
       THEN Return(Raised(state), NoValue)
       ELSE \E i \in ChoiceSupport(state, number_of_qubits) :
               Return(Returned(state), i)

Next == Invoke \/ Initialize \/ Swap \/ ApplySingle \/ ApplyDouble \/ Measure

Spec == Init /\ [][Next]_vars

\* ====================================================================
\* Reference operators, written on basis indices and independent of the
\* swap-based routines above.  Qubit q is the bit q places from the left
\* of the n-bit basis index.
\* ====================================================================
Bit(i, q, n) == (i \div Pow2(n - 1 - q)) % 2
WithBit(i, q, n, b) == i + (b - Bit(i, q, n)) * Pow2(n - 1 - q)
ExchangeBits(i, q1, q2, n) ==
    WithBit(WithBit(i, q1, n, Bit(i, q2, n)), q2, n, Bit(i, q1, n))

RefSwap(st, q1, q2, n) ==
    [k \in 1..Len(st) |-> st[ExchangeBits(k - 1, q1, q2, n) + 1]]

RefSingle(op, q, st, n) ==
    [k \in 1..Len(st) |->
        LET b == Bit(k - 1, q, n)
        IN  CAdd(CMul(op[b + 1][1], st[WithBit(k - 1, q, n, 0) + 1]),
                 CMul(op[b + 1][2], st[WithBit(k - 1, q, n, 1) + 1]))]

\* the amplitude at index i with the control bit set to c and the target bit to t
Joint(st, i, ctrl, targ, n, c, t) ==
    st[WithBit(WithBit(i, ctrl, n, c), targ, n, t) + 1]

RefDouble(op, ctrl, targ, st, n) ==
    [k \in 1..Len(st) |->
        LET row == op[2 * Bit(k - 1, ctrl, n) + Bit(k - 1, targ, n) + 1]
        IN  CAdd(CAdd(CMul(row[1], Joint(st, k - 1, ctrl, targ, n, 0, 0)),
                      CMul(row[2], Joint(st, k - 1, ctrl, targ, n, 0, 1))),
                 CAdd(CMul(row[3], Joint(st, k - 1, ctrl, targ, n, 1, 0)),
                      CMul(row[4], Joint(st, k - 1, ctrl, targ, n, 1, 1))))]

\* _single_gate called once with the int order[k], for k = from .. Len(order)
RECURSIVE CallEach(_, _, _, _, _)
CallEach(op, order, from, st, n) ==
    IF from > Len(order) THEN st
    ELSE CallEach(op, order, from + 1,
                  _single_gate(op, <<order[from]>>, st, n).st, n)

WellFormed(st, n) == Len(st) = Pow2(n)
NormSq(st) == ProbSum(st, Len(st))
AllValid(targ, n) == \A k \in 1..Len(targ) : ValidQubit(targ[k], n)
Untouched(st, n) == st \in Vectors(n) \/ st = [i \in 1..Pow2(n) |-> IF i = 1 THEN One ELSE Zero]

\* the arguments of a swap or gate call that are qubit indices
QubitArgsOf(c) ==
    IF c.op = "single" THEN Range(c.targ)
    ELSE IF c.op \in {"swap", "double"} THEN {c.q1, c.q2}
    ELSE {}

\* ====================================================================
\* Claims
\* ====================================================================

\* C1: a _double_gate call with ctrl == targ ends in an error, whatever the
\* qubit count, the state vector and the index, and leaves the amplitude
\* vector and the qubit count as they were before the call.
C1_SameQubitRejected ==
    [][(Running /\ call.op = "double" /\ call.q1 = call.q2)
        => /\ outcome'.status = "error"
           /\ state' = state
           /\ number_of_qubits' = number_of_qubits]_vars

\* a rejected cy(q, q) on a vector whose entries are all distinct
C1_Witness ==
    /\ call.op = "double" /\ call.q1 = call.q2 /\ call.q1 = 0
    /\ outcome.status = "error"
    /\ number_of_qubits = 4
    /\ state = ComplexRamp(Pow2(number_of_qubits))

\* C2: every swap, _single_gate or _double_gate call with a qubit index
\* outside [0, number_of_qubits) ends in an error and leaves the amplitude
\* vector exactly as it was before the call.
C2_OutOfRangeRejected ==
    [][(/\ Running
        /\ call.op \in {"swap", "single", "double"}
        /\ \E q \in QubitArgsOf(call) : ~ValidQubit(q, number_of_qubits))
        => /\ outcome'.status = "error"
           /\ state' = state]_vars

\* C3: for n >= 2 and distinct valid ctrl, targ, _double_gate returns and
\* leaves the vector of the reference operator: op applied to each group of
\* four amplitudes that differ only in the ctrl and targ bits, ctrl the high
\* bit; every other qubit stays where it was.
C3_DoubleMatchesReference ==
    [][(/\ Running
        /\ call.op = "double"
        /\ ValidQubit(call.q1, number_of_qubits)
        /\ ValidQubit(call.q2, number_of_qubits)
        /\ call.q1 # call.q2
        /\ WellFormed(state, number_of_qubits))
        => /\ outcome'.status = "ok"
           /\ state' = RefDouble(GateMatrix(call.gate), call.q1, call.q2,
                                 state, number_of_qubits)]_vars

\* cy(1, 0) on four qubits (neither qubit in the register) has changed the vector
C3_Witness ==
    /\ call.op = "double" /\ call.q1 = 1 /\ call.q2 = 0
    /\ number_of_qubits = 4
    /\ outcome.status = "ok"
    /\ WellFormed(state, number_of_qubits)
    /\ ~Untouched(state, number_of_qubits)

\* C4: for a valid target q, _single_gate(op, q) returns and leaves the
\* vector of the reference operator: op applied to each pair of amplitudes
\* whose indices differ only in bit q, the index with that bit 0 first.
C4_SingleMatchesReference ==
    [][(/\ Running
        /\ call.op = "single"
        /\ Len(call.targ) = 1
        /\ ValidQubit(call.targ[1], number_of_qubits)
        /\ WellFormed(state, number_of_qubits))
        => /\ outcome'.status = "ok"
           /\ state' = RefSingle(GateMatrix(call.gate), call.targ[1],
                                 state, number_of_qubits)]_vars

\* y(0) on three qubits (the target is not the last qubit) has changed the vector
C4_Witness ==
    /\ call.op = "single" /\ call.scalar /\ call.targ = <<0>>
    /\ number_of_qubits = 3
    /\ outcome.status = "ok"
    /\ WellFormed(state, number_of_qubits)
    /\ ~Untouched(state, number_of_qubits)

\* C5: for a sequence of valid targets, with or without repeats,
\* _single_gate leaves the state that one call per distinct target leaves,
\* and that state is the same for every order of the distinct targets.
C5_TargetsOncePerDistinct ==
    [][(/\ Running
        /\ call.op = "single"
        /\ ~call.scalar
        /\ AllValid(call.targ, number_of_qubits)
        /\ WellFormed(state, number_of_qubits))
        => /\ outcome'.status = "ok"
           /\ \A order \in Orders(Range(call.targ)) :
                state' = CallEach(GateMatrix(call.gate), order, 1, state,
                                  number_of_qubits)]_vars

\* y([1, 1]) has changed the vector
C5_Witness ==
    /\ call.op = "single" /\ ~call.scalar /\ call.targ = <<1, 1>>
    /\ number_of_qubits = 3
    /\ outcome.status = "ok"
    /\ WellFormed(state, number_of_qubits)
    /\ ~Untouched(state, number_of_qubits)

\* C6: measure leaves the amplitude vector and the qubit count as they were,
\* and a returned value is a basis index in [0, 2^n) whose probability is
\* not zero.
C6_MeasureReadsOnly ==
    [][(Running /\ call.op = "measure")
        => /\ state' = state
           /\ number_of_qubits' = number_of_qubits
           /\ outcome'.status = "ok"
                => /\ outcome'.value \in 0..(Pow2(number_of_qubits) - 1)
                   /\ AbsSq(state[outcome'.value + 1]) # 0]_vars

\* measure has returned the last basis index of i|11>
C6_Witness ==
    /\ call.op = "measure"
    /\ outcome.status = "ok"
    /\ number_of_qubits = 2
    /\ outcome.value = 3
    /\ state = PhasedBasis(4, 4)

\* C7: for valid q1, q2, a second swap(q1, q2) right after the first gives
\* back every amplitude of the vector the first one started from, and
\* swap(q, q) leaves the vector unchanged.
C7_SwapInvolution ==
    [][(/\ Running
        /\ call.op = "swap"
        /\ ValidQubit(call.q1, number_of_qubits)
        /\ ValidQubit(call.q2, number_of_qubits)
        /\ WellFormed(state, number_of_qubits))
        => /\ outcome'.status = "ok"
           /\ swap(state', call.q1, call.q2, number_of_qubits) = Returned(state)
           /\ call.q1 = call.q2 => state' = state]_vars

\* swap(0, 2) has changed the vector
C7_Witness ==
    /\ call.op = "swap" /\ call.q1 = 0 /\ call.q2 = 2
    /\ number_of_qubits = 3
    /\ outcome.status = "ok"
    /\ WellFormed(state, number_of_qubits)
    /\ ~Untouched(state, number_of_qubits)

\* C8: the amplitude sequence has length 2^number_of_qubits in every
\* reachable state.
C8_LengthIsPowerOfTwo == Len(state) = Pow2(number_of_qubits)

C10_SwapIsBitExchange ==
    [][(/\ Running
        /\ call.op = "swap"
        /\ ValidQubit(call.q1, number_of_qubits)
        /\ ValidQubit(call.q2, number_of_qubits)
        /\ call.q1 # call.q2
        /\ WellFormed(state, number_of_qubits))
        => /\ outcome'.status = "ok"
           /\ state' = RefSwap(state, call.q1, call.q2, number_of_qubits)]_vars

\* swap(3, 1) on four qubits has changed the vector
C10_Witness ==
    /\ call.op = "swap" /\ call.q1 = 3 /\ call.q2 = 1
    /\ number_of_qubits = 4
    /\ outcome.status = "ok"
    /\ WellFormed(state, number_of_qubits)
    /\ ~Untouched(state, number_of_qubits)
====
